---- MODULE Spec2Model ----
(***************************************************************************)
(* Model of the upsert engine (persevera_tools/db/operations.py, to_sql)   *)
(* and of the orchestration facade                                         *)
(* (persevera_tools/data/financial_data_service.py, get_data).             *)
(*                                                                         *)
(* The relational sink is the PostgreSQL table the INSERT ... ON CONFLICT  *)
(* statement of to_sql is sent to.  It carries a uniqueness constraint on  *)
(* the key columns given to to_sql (spec section 6).                       *)
(***************************************************************************)
EXTENDS Integers, Sequences, FiniteSets, TLC

\* ------------------------------------------------------------------ bounds
MaxLen == 3            \* longest input table
MaxBatch == 3          \* largest batch_size tried when to_sql is called directly
PageSize == 2          \* rows per statement of execute_values (psycopg2 default 100, scaled)
FacadeBatch == 2       \* batch_size the facade passes (5000 in the source, scaled)
MaxRetry == 3          \* largest retry_attempts

\* ------------------------------------------------------------- data model
Columns == <<"date", "code", "field", "value">>
ColSet == {Columns[i] : i \in 1..Len(Columns)}
Dates == {"2024-01-02"}
Codes == {"AAA", "BBB"}
Fields == {"close"}
Values == {10, 12}
Rows == [date : Dates, code : Codes, field : Fields, value : Values]

CanonicalKey == {"code", "date", "field"}
PKChoices == {CanonicalKey, ColSet}

RECURSIVE SeqsUpTo(_)
SeqsUpTo(n) == IF n = 0 THEN {<<>>}
               ELSE SeqsUpTo(n - 1) \cup [1..n -> Rows]
Tables == SeqsUpTo(MaxLen)

Min(a, b) == IF a < b THEN a ELSE b

KeyOf(r, pk) == [c \in pk |-> r[c]]
KeysOf(S, pk) == {KeyOf(r, pk) : r \in S}
RowSet(t) == {t[j] : j \in 1..Len(t)}
UniqueKeys(S, pk) == \A r1, r2 \in S : KeyOf(r1, pk) = KeyOf(r2, pk) => r1 = r2
Sinks(pk) == {S \in SUBSET Rows : UniqueKeys(S, pk)}

\* ------------------------------------------------------------ the store
\* update_cols of to_sql: the columns that are not primary keys
UpdateCols(pk) == {c \in ColSet : c \notin pk}

\* Variant: the conflicting row is added to the stored one
\* (SET value = t.value + EXCLUDED.value) instead of replacing it.
UpsertRowAdditive(s, r, pk) ==
  IF KeyOf(r, pk) \in KeysOf(s, pk)
  THEN LET old == CHOOSE o \in s : KeyOf(o, pk) = KeyOf(r, pk)
           new == [c \in ColSet |-> IF c = "value" /\ c \in UpdateCols(pk)
                                    THEN old[c] + r[c]
                                    ELSE IF c \in UpdateCols(pk) THEN r[c] ELSE old[c]]
       IN (s \ {old}) \cup {new}
  ELSE s \cup {r}

\* Variant: the upsert leaves the incoming row alone in the table.
UpsertRowAlone(s, r, pk) == {r}

\* Variant: on conflict the stored row is kept as it is.
UpsertRowKeepOld(s, r, pk) ==
  IF KeyOf(r, pk) \in KeysOf(s, pk) THEN s ELSE s \cup {r}

\* One row of INSERT ... ON CONFLICT (pk) DO UPDATE SET col = EXCLUDED.col
UpsertRow(s, r, pk) ==
  IF KeyOf(r, pk) \in KeysOf(s, pk)
  THEN LET old == CHOOSE o \in s : KeyOf(o, pk) = KeyOf(r, pk)
           new == [c \in ColSet |-> IF c \in UpdateCols(pk) THEN r[c] ELSE old[c]]
       IN (s \ {old}) \cup {new}
  ELSE s \cup {r}

\* One row of INSERT ... ON CONFLICT (pk) DO NOTHING
InsertIfAbsent(s, r, pk) ==
  IF KeyOf(r, pk) \in KeysOf(s, pk) THEN s ELSE s \cup {r}

\* Variant: the DO NOTHING clause is attached whatever the update flag says.
ConflictRowNeverUpdate(s, r, pk, update) == InsertIfAbsent(s, r, pk)

\* Variant: the DO UPDATE clause is attached whatever the update flag says.
ConflictRowAlwaysUpdate(s, r, pk, update) == UpsertRow(s, r, pk)

ConflictRow(s, r, pk, update) ==
  IF update THEN UpsertRow(s, r, pk) ELSE InsertIfAbsent(s, r, pk)

RECURSIVE ApplyRows(_, _, _, _)
ApplyRows(s, rows, pk, update) ==
  IF rows = <<>> THEN s
  ELSE ApplyRows(ConflictRow(s, Head(rows), pk, update), Tail(rows), pk, update)

\* PostgreSQL refuses a DO UPDATE statement that proposes the same key twice
\* ("ON CONFLICT DO UPDATE command cannot affect row a second time").
CardinalityViolation(page, pk, update) ==
  update /\ \E a, b \in 1..Len(page) : a < b /\ KeyOf(page[a], pk) = KeyOf(page[b], pk)

\* One statement: [ok, rows]; a refused statement changes nothing.
Statement(s, page, pk, update) ==
  IF CardinalityViolation(page, pk, update)
  THEN [ok |-> FALSE, rows |-> s]
  ELSE [ok |-> TRUE, rows |-> ApplyRows(s, page, pk, update)]

\* psycopg2.extras.execute_values: the batch goes out in pages of PageSize
\* rows, one statement per page, all inside the open transaction.
RECURSIVE ExecuteValues(_, _, _, _)
ExecuteValues(s, batch, pk, update) ==
  IF batch = <<>> THEN [ok |-> TRUE, rows |-> s]
  ELSE LET n == Min(PageSize, Len(batch))
           st == Statement(s, SubSeq(batch, 1, n), pk, update)
       IN IF st.ok
          THEN ExecuteValues(st.rows, SubSeq(batch, n + 1, Len(batch)), pk, update)
          ELSE [ok |-> FALSE, rows |-> st.rows]

\* conn.commit() after execute_values; when execute_values raised, the
\* commit is skipped and conn.close() in the finally clause rolls back.
CommitBatch(committed, res) == IF res.ok THEN res.rows ELSE committed

\* batch = data_tuples[i:i+batch_size]
BatchAt(data, i, bs) == SubSeq(data, i + 1, Min(i + bs, Len(data)))

\* Variant: the exception is logged and swallowed, as in the
\* "except UniqueViolation" clause.
OnDatabaseErrorSwallow(e) == [pc |-> "returned", error |-> e]

\* except (psycopg2.Error, SQLAlchemyError): raise
OnDatabaseError(e) == [pc |-> "raised", error |-> e]

\* --------------------------------------------------------------- state
VARIABLES
  sink,        \* committed rows of the table
  sink0,       \* the sink when the running to_sql call was entered
  ts_pc,       \* to_sql: "idle", "loop", "returned", "raised"
  ts_data,     \* to_sql: data
  ts_pk,       \* to_sql: primary_keys
  ts_update,   \* to_sql: update
  ts_bs,       \* to_sql: batch_size
  ts_i,        \* to_sql: loop index i
  ts_error,    \* to_sql: the exception it raised
  ts_sent,     \* to_sql: batches handed to execute_values in this call
  ts_fault,    \* whether the store failed for a reason of its own in this call
  ts_rejected, \* the batch the store rejected in this call and its error (batch 0: none)
  ts_log,      \* to_sql: the batches handed to execute_values in this call, in order
  arg,         \* direct driver: the arguments of the to_sql calls
  run,         \* direct driver: calls made so far
  runlog,      \* direct driver: per finished call, its outcome and the sink
  pc,          \* get_data: "start", "loop", "persisting", "done", "failed"
  source,      \* get_data: source
  retry_attempts, \* get_data: retry_attempts
  save_to_db,  \* get_data: save_to_db
  attempt,     \* get_data: attempt
  last_error,  \* get_data: last_error
  df,          \* get_data: the table of the last successful fetch
  result,      \* get_data: the table returned to the caller
  error,       \* get_data: the exception raised to the caller
  trace,       \* what the provider did on each invocation made so far
  persistLog,  \* for each to_sql invocation, the provider invocation it followed
  persistErrors, \* the exceptions to_sql raised into get_data so far
  v_pc,        \* _validate_output: "off", "called", "done"
  v_df,        \* _validate_output: the raw table df (its columns and rows)
  v_start,     \* DataProvider: the start_date given to the constructor
  v_out,       \* _validate_output: what the call returned or raised
  rd_pc,       \* read_sql: "off", "called", "done"
  rd_query,    \* read_sql: the keys the query selects
  rd_fault,    \* read_sql: the step that fails in this call ("none": no step)
  rd_out,      \* read_sql: what the call returned or raised
  txn,         \* to_sql: the rows as the open transaction of its connection sees them
  txn_pos,     \* to_sql: rows of the current batch already sent by execute_values
  seen,        \* the sink as a concurrent reader has observed it, one entry per query
  ts_res,      \* to_sql: what the call acquired and released (engine, connection, cursor)
  call_sink,   \* the sink when get_data was called (kept where a claim compares with it)
  rt_order,    \* the order of data.columns in the table handed to to_sql
  w,           \* two to_sql calls at once: per call its position, input and open transaction
  w_cfg,       \* two to_sql calls at once: the primary key and batch size they share
  b_src,       \* b3: for each day of the range, what the B3 API answers for that day
  b_fut,       \* b3: the future of each day ("submitted", "finished", "collected"), its result
  b_all,       \* b3: all_data
  b_out,       \* b3: what _fetch_flow_data_in_range returned or raised
  q_api,       \* fibery: the selections of the field the API accepts, the entities of the table
  q_pc,        \* read_fibery: "off", "loop", "done"
  q_sel,       \* read_fibery: field_selection[alias] of the field under study
  q_retry,     \* read_fibery: retry_count
  q_sent,      \* read_fibery: the selection in each query sent, in order
  q_out,       \* read_fibery: what it returned
  f_cfg,       \* fred: max_retries and the series asked for
  f_pc,        \* _get_series_with_retry: "off", "loop", "done"
  f_attempt,   \* _get_series_with_retry: attempt
  f_hist,      \* fred: what the API answered to each call, in order
  f_waits,     \* fred: the seconds slept after each call (0: no sleep)
  f_out,       \* _get_series_with_retry: what it returned
  d_in,        \* subtract_business_days: current_date, days_to_subtract, holidays
  d_pc,        \* subtract_business_days: "off", "loop", "done"
  d_new,       \* subtract_business_days: new_date
  d_count      \* subtract_business_days: days_subtracted

tsVars == <<ts_pc, ts_data, ts_pk, ts_update, ts_bs, ts_i, ts_error, ts_sent, ts_fault,
            ts_rejected, ts_log, ts_res>>
driverVars == <<arg, run, runlog>>
validatorVars == <<v_pc, v_df, v_start, v_out>>
readVars == <<rd_pc, rd_query, rd_fault, rd_out>>
readerVars == <<txn, txn_pos, seen>>
pairVars == <<w, w_cfg>>
b3Vars == <<b_src, b_fut, b_all, b_out>>
fiberyVars == <<q_api, q_pc, q_sel, q_retry, q_sent, q_out>>
fredVars == <<f_cfg, f_pc, f_attempt, f_hist, f_waits, f_out>>
dateVars == <<d_in, d_pc, d_new, d_count>>
laterVars == <<call_sink, rt_order, pairVars, b3Vars, fiberyVars, fredVars, dateVars>>
sideVars == <<validatorVars, readVars, readerVars, laterVars>>
facadeVars == <<pc, source, retry_attempts, save_to_db, attempt, last_error, df, result,
                error, trace, persistLog, persistErrors>>
vars == <<sink, sink0, tsVars, driverVars, facadeVars, sideVars>>

NoError == [kind |-> "none", n |-> 0]

\* No _validate_output call, no read_sql call and no reader are under way.
NoOutcome == [status |-> "none", error |-> "none", step |-> "none", cols |-> {},
              index |-> <<>>, rows |-> <<>>]
NoRead == [status |-> "none", error |-> "none", rows |-> {}, disposed |-> 0]
ValidatorIdle ==
  /\ v_pc = "off"
  /\ v_df = [cols |-> {}, rows |-> <<>>]
  /\ v_start = "1980-01-01"
  /\ v_out = NoOutcome
ReadIdle ==
  /\ rd_pc = "off"
  /\ rd_query = {}
  /\ rd_fault = "none"
  /\ rd_out = NoRead
ReaderIdle ==
  /\ txn = {}
  /\ txn_pos = 0
  /\ seen = <<>>
RoundTripIdle == rt_order = Columns
Writers == {1, 2}
IdleWriter == [pc |-> "idle", data |-> <<>>, i |-> 0, pos |-> 0, pend |-> {},
               error |-> NoError]
PairIdle ==
  /\ w = [k \in Writers |-> IdleWriter]
  /\ w_cfg = [pk |-> CanonicalKey, bs |-> 1]
NoFlow == [status |-> "none", frame |-> <<>>]
B3Idle ==
  /\ b_src = <<>>
  /\ b_fut = <<>>
  /\ b_all = <<>>
  /\ b_out = NoFlow
NoEntities == [status |-> "none", rows |-> 0, field |-> FALSE, log |-> "none"]
FiberyIdle ==
  /\ q_api = [accepts |-> {}, entities |-> 0]
  /\ q_pc = "off"
  /\ q_sel = "removed"
  /\ q_retry = 0
  /\ q_sent = <<>>
  /\ q_out = NoEntities
NoSeries == [status |-> "none", series |-> "none", attempt |-> 0]
FredIdle ==
  /\ f_cfg = [max_retries |-> 0, series |-> "none"]
  /\ f_pc = "off"
  /\ f_attempt = 0
  /\ f_hist = <<>>
  /\ f_waits = <<>>
  /\ f_out = NoSeries
NoDate == [day |-> 0, clock |-> "none"]
DatesIdle ==
  /\ d_in = [current_date |-> NoDate, days_to_subtract |-> 0, holidays |-> {}]
  /\ d_pc = "off"
  /\ d_new = NoDate
  /\ d_count = 0
LaterIdle == RoundTripIdle /\ PairIdle /\ B3Idle /\ FiberyIdle /\ FredIdle /\ DatesIdle
DriverError(kind) == [kind |-> kind, n |-> 0]
NoRejection == [batch |-> 0, error |-> NoError]
NoResources == [acquired |-> 0, cursor_closed |-> 0, conn_closed |-> 0, disposed |-> 0,
                contacted |-> FALSE]

\* ---------------------------------------------------------------- to_sql
\* Lines 34-36: engine = get_db_engine(); conn = engine.raw_connection();
\* cursor = conn.cursor().
Acquire(res) == [res EXCEPT !.acquired = @ + 1, !.contacted = TRUE]

\* Variant: the finally clause stops after conn.close().
ReleaseKeepsEngine(res) ==
  [res EXCEPT !.cursor_closed = @ + 1, !.conn_closed = @ + 1]

\* Lines 98-101, the finally clause: cursor.close(); conn.close();
\* engine.dispose().
Release(res) ==
  [res EXCEPT !.cursor_closed = @ + 1, !.conn_closed = @ + 1, !.disposed = @ + 1]

\* Lines 27-65: entry of to_sql up to the batch loop.
ToSqlEnter(data, pk, update, bs) ==
  /\ ts_data' = data
  /\ ts_pk' = pk
  /\ ts_update' = update
  /\ ts_bs' = bs
  /\ ts_i' = 0
  /\ ts_error' = NoError
  /\ ts_sent' = 0
  /\ ts_fault' = FALSE
  /\ ts_rejected' = NoRejection
  /\ ts_log' = <<>>
  /\ ts_res' = IF Len(data) = 0 THEN NoResources
               ELSE IF update /\ UpdateCols(pk) = {} THEN Release(Acquire(NoResources))
               ELSE Acquire(NoResources)
  /\ sink0' = sink
  /\ ts_pc' = IF Len(data) = 0 THEN "returned"
              ELSE IF update /\ UpdateCols(pk) = {} THEN "returned"
              ELSE "loop"

\* Lines 68-74 and 93-101: one iteration of the batch loop.
ToSqlBatch ==
  /\ ts_pc = "loop"
  /\ ts_i < Len(ts_data)
  /\ ts_sent' = ts_sent + 1
  /\ ts_log' = Append(ts_log, BatchAt(ts_data, ts_i, ts_bs))
  /\ \E storeFails \in BOOLEAN :
       LET res == ExecuteValues(sink, BatchAt(ts_data, ts_i, ts_bs), ts_pk, ts_update)
           e == DriverError(IF storeFails THEN "OperationalError"
                            ELSE "CardinalityViolation")
           h == OnDatabaseError(e)
       IN IF storeFails \/ ~res.ok
          THEN /\ sink' = CommitBatch(sink, [ok |-> FALSE, rows |-> res.rows])
               /\ ts_pc' = h.pc
               /\ ts_error' = h.error
               /\ ts_i' = ts_i
               /\ ts_fault' = (ts_fault \/ storeFails)
               /\ ts_rejected' = [batch |-> ts_sent + 1, error |-> e]
               /\ ts_res' = Release(ts_res)
          ELSE /\ sink' = CommitBatch(sink, res)
               /\ ts_i' = ts_i + ts_bs
               /\ ts_pc' = IF ts_i + ts_bs < Len(ts_data) THEN "loop" ELSE "returned"
               /\ ts_error' = ts_error
               /\ ts_fault' = ts_fault
               /\ ts_rejected' = ts_rejected
               /\ ts_res' = IF ts_i + ts_bs < Len(ts_data) THEN ts_res
                            ELSE Release(ts_res)
  /\ UNCHANGED <<sink0, ts_data, ts_pk, ts_update, ts_bs>>

\* ------------------------------------------- FinancialDataService.get_data
\* The keys of the providers map (lines 412-423).
providers == {"sgs", "fred", "sidra", "anbima", "bcb_focus", "simplify", "invesco",
              "kraneshares", "mdic", "b3"}
SourcesTried == {"sgs", "nasdaq"}
\* The exception the provider raises on its j-th invocation.
ProviderError(j) == [kind |-> "DataRetrievalError", n |-> j]
NoException == [type |-> "none", source |-> "none", attempts |-> 0, last |-> NoError]

\* The facade is not running (used while to_sql is called directly).
FacadeIdle ==
  /\ pc = "off"
  /\ source = "none"
  /\ retry_attempts = 0
  /\ save_to_db = FALSE
  /\ attempt = 0
  /\ last_error = NoError
  /\ df = <<>>
  /\ result = <<>>
  /\ error = NoException
  /\ trace = <<>>
  /\ persistLog = <<>>
  /\ persistErrors = <<>>

\* Variant: the loop makes one attempt more.
LoopTestOneMore(a, n) == a <= n

\* Variant: the loop makes one attempt less.
LoopTestOffByOne(a, n) == a < n - 1

\* while attempt < retry_attempts
LoopTest(a, n) == a < n

\* Variant: the emptiness check is missing.
IsEmptyNever(t) == FALSE

\* if df.empty
IsEmpty(t) == Len(t) = 0

\* Variant: only the first failure is remembered.
RecordFailureKeepFirst(prev, e) == IF prev = NoError THEN e ELSE prev

\* last_error = e
RecordFailure(prev, e) == e

\* RuntimeError(f"Failed to retrieve data from {source} after {retry_attempts}
\* attempts. Last error: {str(last_error)}")
AggregatedError(src, n, last) ==
  [type |-> "RuntimeError", source |-> src, attempts |-> n, last |-> last]

\* Variant: the lookup does not refuse a source that is not in the map.
SourceKnownAlways(src) == TRUE

\* if source not in providers
SourceKnown(src) == src \in providers

\* Lines 409-431: provider lookup and loop initialisation.
GetDataEnter ==
  /\ pc = "start"
  /\ IF ~SourceKnown(source)
     THEN /\ pc' = "failed"
          /\ error' = [type |-> "ValueError", source |-> source, attempts |-> 0,
                       last |-> NoError]
     ELSE /\ pc' = "loop"
          /\ error' = error
  /\ attempt' = 0
  /\ last_error' = NoError
  /\ UNCHANGED <<source, retry_attempts, save_to_db, df, result, trace,
                 persistLog, persistErrors, sink, sink0, tsVars, driverVars, sideVars>>

\* The except clause of lines 460-465.
OnAttemptFailure(e) ==
  /\ attempt' = attempt + 1
  /\ last_error' = RecordFailure(last_error, e)
  /\ pc' = "loop"

\* Line 435 raising: provider.get_data fails.
ProviderRaises ==
  /\ pc = "loop"
  /\ LoopTest(attempt, retry_attempts)
  /\ trace' = Append(trace, "raise")
  /\ OnAttemptFailure(ProviderError(Len(trace) + 1))
  /\ UNCHANGED <<source, retry_attempts, save_to_db, df, result, error,
                 persistLog, persistErrors, sink, sink0, tsVars, driverVars, sideVars>>

\* Lines 435-458: provider.get_data returns the table t.
ProviderReturns(t) ==
  /\ pc = "loop"
  /\ LoopTest(attempt, retry_attempts)
  /\ trace' = Append(trace, IF Len(t) = 0 THEN "empty" ELSE "table")
  /\ df' = t
  /\ IF IsEmpty(t)
     THEN /\ pc' = "done"
          /\ result' = t
          /\ UNCHANGED <<persistLog, sink0, tsVars>>
     ELSE IF save_to_db
     THEN /\ pc' = "persisting"
          /\ result' = result
          /\ persistLog' = Append(persistLog, Len(trace) + 1)
          /\ ToSqlEnter(t, CanonicalKey, TRUE, FacadeBatch)
     ELSE /\ pc' = "done"
          /\ result' = t
          /\ UNCHANGED <<persistLog, sink0, tsVars>>
  /\ UNCHANGED <<source, retry_attempts, save_to_db, attempt, last_error, error,
                 persistErrors, sink, driverVars, sideVars>>

ProviderReturnsSome == \E t \in Tables : ProviderReturns(t)

\* to_sql is running inside get_data.
PersistBatch ==
  pc = "persisting" /\ ToSqlBatch /\ UNCHANGED <<driverVars, facadeVars, sideVars>>

\* The frame of a to_sql call that has returned or raised is gone.
ToSqlLeave ==
  /\ ts_pc' = "idle"
  /\ ts_data' = <<>>
  /\ ts_i' = 0
  /\ ts_error' = NoError
  /\ ts_sent' = 0
  /\ ts_fault' = FALSE
  /\ ts_rejected' = NoRejection
  /\ ts_log' = <<>>
  /\ ts_res' = NoResources
  /\ UNCHANGED <<ts_pk, ts_update, ts_bs>>

\* Line 458: to_sql returned, get_data returns df.
PersistReturned ==
  /\ pc = "persisting"
  /\ ts_pc = "returned"
  /\ pc' = "done"
  /\ result' = df
  /\ ToSqlLeave
  /\ UNCHANGED <<source, retry_attempts, save_to_db, attempt, last_error, df, error,
                 trace, persistLog, persistErrors, sink, sink0, driverVars, sideVars>>

\* Lines 454-456 re-raise the exception of to_sql inside the outer try, so
\* the except clause of line 460 receives it.
PersistRaised ==
  /\ pc = "persisting"
  /\ ts_pc = "raised"
  /\ OnAttemptFailure(ts_error)
  /\ persistErrors' = Append(persistErrors, ts_error)
  /\ ToSqlLeave
  /\ df' = <<>>   \* df is not read again before line 435 rebinds it
  /\ UNCHANGED <<source, retry_attempts, save_to_db, result, error, trace,
                 persistLog, sink, sink0, driverVars, sideVars>>

\* Lines 467-469: the loop is left without a return.
Exhausted ==
  /\ pc = "loop"
  /\ ~LoopTest(attempt, retry_attempts)
  /\ pc' = "failed"
  /\ error' = AggregatedError(source, retry_attempts, last_error)
  /\ UNCHANGED <<source, retry_attempts, save_to_db, attempt, last_error, df, result,
                 trace, persistLog, persistErrors, sink, sink0, tsVars, driverVars, sideVars>>

RetryChoices == (0 - 1)..MaxRetry

InitFacade ==
  /\ pc = "start"
  /\ source \in SourcesTried
  /\ retry_attempts \in RetryChoices
  /\ save_to_db \in BOOLEAN
  /\ attempt = 0
  /\ last_error = NoError
  /\ df = <<>>
  /\ result = <<>>
  /\ error = NoException
  /\ trace = <<>>
  /\ persistLog = <<>>
  /\ persistErrors = <<>>
  /\ sink \in Sinks(CanonicalKey)
  /\ sink0 = sink
  /\ ts_pc = "idle"
  /\ ts_data = <<>>
  /\ ts_pk = CanonicalKey
  /\ ts_update = TRUE
  /\ ts_bs = FacadeBatch
  /\ ts_i = 0
  /\ ts_error = NoError
  /\ ts_sent = 0
  /\ ts_fault = FALSE
  /\ ts_rejected = NoRejection
  /\ ts_log = <<>>
  /\ ts_res = NoResources
  /\ arg = [data |-> <<>>, primary_keys |-> CanonicalKey, update |-> TRUE,
            batch_size |-> FacadeBatch]
  /\ run = 0
  /\ runlog = <<>>
  /\ ValidatorIdle
  /\ ReadIdle
  /\ ReaderIdle
  /\ call_sink = {}
  /\ LaterIdle

NextFacade ==
  \/ GetDataEnter
  \/ ProviderRaises
  \/ ProviderReturnsSome
  \/ PersistBatch
  \/ PersistReturned
  \/ PersistRaised
  \/ Exhausted

SpecFacade == InitFacade /\ [][NextFacade]_vars

\* get_data is sequential code: while the call has a next statement it runs
\* it (provider.get_data and to_sql are taken to return or raise).
\* Whether the call ends does not depend on the rows the table holds: the
\* call is followed from an empty table.
InitFacadeFair == InitFacade /\ sink = {}

SpecFacadeFair == InitFacadeFair /\ [][NextFacade]_vars /\ WF_vars(NextFacade)

\* --------------------------------------------------- calling to_sql directly
InitToSql ==
  /\ arg \in [data : Tables, primary_keys : PKChoices, update : BOOLEAN,
              batch_size : 1..MaxBatch]
  /\ sink \in Sinks(arg.primary_keys)
  /\ sink0 = sink
  /\ ts_pc = "idle"
  /\ ts_data = <<>>
  /\ ts_pk = arg.primary_keys
  /\ ts_update = arg.update
  /\ ts_bs = arg.batch_size
  /\ ts_i = 0
  /\ ts_error = NoError
  /\ ts_sent = 0
  /\ ts_fault = FALSE
  /\ ts_rejected = NoRejection
  /\ ts_log = <<>>
  /\ ts_res = NoResources
  /\ run = 0
  /\ runlog = <<>>
  /\ FacadeIdle
  /\ ValidatorIdle
  /\ ReadIdle
  /\ ReaderIdle
  /\ call_sink = {}
  /\ LaterIdle

Finished == ts_pc \in {"returned", "raised"}

\* The caller runs to_sql(data, table, keys, update, batch_size), and once it
\* has finished runs the same call a second time.
CallToSql ==
  /\ run < 2
  /\ ts_pc = "idle" \/ Finished
  /\ run' = run + 1
  /\ runlog' = IF run = 0 THEN runlog
               ELSE Append(runlog, [pc |-> ts_pc, sink |-> sink, before |-> sink0,
                                    fault |-> ts_fault])
  /\ ToSqlEnter(arg.data, arg.primary_keys, arg.update, arg.batch_size)
  /\ UNCHANGED <<sink, arg, facadeVars, sideVars>>

DriverBatch == ToSqlBatch /\ UNCHANGED <<driverVars, facadeVars, sideVars>>

NextToSql == CallToSql \/ DriverBatch

SpecToSql == InitToSql /\ [][NextToSql]_vars

\* ------------------------------------------- DataProvider._validate_output
MaxRaw == 2            \* longest raw table handed to _validate_output

NA == "<NA>"           \* a missing entry (None / NaN)
RawDates == {"2023-12-29", "2024-01-01", "2024-01-02", "n/a"}
RawCodes == {"AAA", "BBB", NA}
RawValues == {"10", "inf", NA}
RawRows == [date : RawDates, code : RawCodes, field : Fields, value : RawValues,
            source : {"x"}]
\* The columns a raw table may come with: the required ones, one more, one less.
RawColChoices == {ColSet, ColSet \cup {"source"}, ColSet \ {"value"}}
StartDates == {"1980-01-01", "2024-01-01"}

RECURSIVE RawSeqsUpTo(_)
RawSeqsUpTo(n) == IF n = 0 THEN {<<>>}
                  ELSE RawSeqsUpTo(n - 1) \cup [1..n -> RawRows]
RawTables == [cols : RawColChoices, rows : RawSeqsUpTo(MaxRaw)]

\* pd.to_datetime on one entry: the dates it can parse, as yyyymmdd
Parseable(d) == d \in {"1980-01-01", "2023-12-29", "2024-01-01", "2024-01-02"}
DateValue(d) ==
  CASE d = "1980-01-01" -> 19800101
    [] d = "2023-12-29" -> 20231229
    [] d = "2024-01-01" -> 20240101
    [] d = "2024-01-02" -> 20240102

\* The frame: every row with its index label (df.copy()).
Frame(rows) == [i \in 1..Len(rows) |->
                 [idx |-> i - 1, date |-> rows[i].date, code |-> rows[i].code,
                  field |-> rows[i].field, value |-> rows[i].value,
                  source |-> rows[i].source]]

\* missing_cols = [col for col in required_cols if col not in df.columns]
MissingCols(cols) == {c \in ColSet : c \notin cols}

\* df['date'] = pd.to_datetime(df['date'])
DatesParse(f) == \A i \in 1..Len(f) : Parseable(f[i].date)
ToDatetimeColumn(f) == [i \in 1..Len(f) |-> [f[i] EXCEPT !.date = DateValue(@)]]

\* Variant: the null-code check is made after the rows without a value were
\* dropped.
CodeIsNaAnyAfterDropna(f) == \E i \in 1..Len(f) : f[i].code = NA /\ f[i].value # NA

\* df['code'].isna().any()
CodeIsNaAny(f) == \E i \in 1..Len(f) : f[i].code = NA

\* df.dropna(subset=['value'])
HasValue(r) == r.value # NA
DropNaValue(f) == SelectSeq(f, HasValue)

\* df['value'].astype(float)
AsFloat(v) == CASE v = "10" -> "10.0"
                [] v = "inf" -> "inf"
AsTypeFloat(f) == [i \in 1..Len(f) |-> [f[i] EXCEPT !.value = AsFloat(@)]]

\* df['value'].isfinite(): a pandas Series has no attribute isfinite, so the
\* lookup raises AttributeError whatever the values are.
SeriesHasIsFinite == FALSE
AllFinite(f) == \A i \in 1..Len(f) : f[i].value # "inf"

\* df[df['date'] >= self.start_date]
FilterStart(f, start) ==
  LET NotBefore(r) == r.date >= DateValue(start)
  IN SelectSeq(f, NotBefore)

\* sort_values(['date', 'code', 'field'], ascending=[False, True, True])
Rank(x) == CASE x = "AAA" -> 1
             [] x = "BBB" -> 2
             [] x = "close" -> 1
Before(a, b) ==
  \/ a.date > b.date
  \/ a.date = b.date /\ Rank(a.code) < Rank(b.code)
  \/ a.date = b.date /\ a.code = b.code /\ Rank(a.field) < Rank(b.field)
RECURSIVE InsertSorted(_, _)
InsertSorted(f, r) ==
  IF f = <<>> THEN <<r>>
  ELSE IF Before(r, Head(f)) THEN <<r>> \o f
  ELSE <<Head(f)>> \o InsertSorted(Tail(f), r)
RECURSIVE SortValues(_)
SortValues(f) ==
  IF f = <<>> THEN <<>>
  ELSE InsertSorted(SortValues(SubSeq(f, 1, Len(f) - 1)), f[Len(f)])

\* What a returned table shows: its columns, its index and its rows.
Shown(r, cols) == [c \in cols |-> r[c]]
Returned(cols, index, f) ==
  [status |-> "returned", error |-> "none", step |-> "none", cols |-> cols,
   index |-> index, rows |-> [i \in 1..Len(f) |-> Shown(f[i], cols)]]
\* Every exception leaves _validate_output as a ValidationError (lines 105-108).
Raised(msg, step) ==
  [status |-> "raised", error |-> msg, step |-> step, cols |-> {},
   index |-> <<>>, rows |-> <<>>]

\* Lines 70-108.
ValidateOutput(raw, start) ==
  IF MissingCols(raw.cols) # {}
  THEN Raised("Missing required columns", "columns")
  ELSE IF ~DatesParse(Frame(raw.rows))
  THEN Raised("Data validation failed: to_datetime", "date")
  ELSE LET f1 == ToDatetimeColumn(Frame(raw.rows))
       IN IF CodeIsNaAny(f1)
          THEN Raised("Found null values in 'code' column", "code")
          ELSE LET f2 == AsTypeFloat(DropNaValue(f1))
               IN IF ~SeriesHasIsFinite
                  THEN Raised("Data validation failed: 'Series' object has no attribute 'isfinite'",
                              "finite")
                  ELSE IF ~AllFinite(f2)
                  THEN Raised("Found infinite values in 'value' column", "finite")
                  ELSE LET f3 == FilterStart(f2, start)
                       IN IF f3 = <<>>
                          THEN Returned(raw.cols, <<>>, f3)
                          ELSE LET f4 == SortValues(f3)
                               IN Returned(ColSet, [i \in 1..Len(f4) |-> i - 1], f4)

\* Nothing of the upsert engine is under way.
ToSqlIdle ==
  /\ sink = {}
  /\ sink0 = {}
  /\ ts_pc = "idle"
  /\ ts_data = <<>>
  /\ ts_pk = CanonicalKey
  /\ ts_update = TRUE
  /\ ts_bs = FacadeBatch
  /\ ts_i = 0
  /\ ts_error = NoError
  /\ ts_sent = 0
  /\ ts_fault = FALSE
  /\ ts_rejected = NoRejection
  /\ ts_log = <<>>
  /\ ts_res = NoResources
  /\ arg = [data |-> <<>>, primary_keys |-> CanonicalKey, update |-> TRUE,
            batch_size |-> FacadeBatch]
  /\ run = 0
  /\ runlog = <<>>

InitValidate ==
  /\ v_pc = "called"
  /\ v_df \in RawTables
  /\ v_start \in StartDates
  /\ v_out = NoOutcome
  /\ ToSqlIdle
  /\ FacadeIdle
  /\ ReadIdle
  /\ ReaderIdle
  /\ call_sink = {}
  /\ LaterIdle

\* A provider hands its raw table to self._validate_output(df).
ValidateCall ==
  /\ v_pc = "called"
  /\ v_pc' = "done"
  /\ v_out' = ValidateOutput(v_df, v_start)
  /\ UNCHANGED <<v_df, v_start, sink, sink0, tsVars, driverVars, facadeVars, readVars,
                 readerVars, laterVars>>

NextValidate == ValidateCall

SpecValidate == InitValidate /\ [][NextValidate]_vars

\* ------------------------------------------------------------- read_sql
\* The steps of read_sql that can fail.
ReadFaults == {"none", "engine", "connect", "statement", "params"}

\* engine = get_db_engine() stands before the try statement; connecting,
\* the statement and its parameters are handled inside it.
InsideTry(step) == step \in {"connect", "statement", "params"}

\* Variant: the except clause names the statement errors only.
ExceptClauseStatementOnly(step) ==
  IF step \in {"statement", "params"} THEN "empty" ELSE "raise"

\* except Exception as e: ... return pd.DataFrame()
ExceptClause(step) == "empty"

\* The rows a query for the keys q selects.
Selected(S, q) == {r \in S : KeyOf(r, CanonicalKey) \in q}

\* Lines 104-137.
ReadSqlResult(S, q, fault) ==
  IF fault = "none"
  THEN [status |-> "returned", error |-> "none", rows |-> Selected(S, q), disposed |-> 1]
  ELSE IF InsideTry(fault) /\ ExceptClause(fault) = "empty"
  THEN [status |-> "returned", error |-> "none", rows |-> {}, disposed |-> 1]
  ELSE [status |-> "raised", error |-> fault, rows |-> {},
        disposed |-> IF InsideTry(fault) THEN 1 ELSE 0]

InitRead ==
  /\ rd_pc = "called"
  /\ rd_query \in SUBSET KeysOf(Rows, CanonicalKey)
  /\ rd_fault \in ReadFaults
  /\ rd_out = NoRead
  /\ sink \in Sinks(CanonicalKey)
  /\ sink0 = sink
  /\ ts_pc = "idle"
  /\ ts_data = <<>>
  /\ ts_pk = CanonicalKey
  /\ ts_update = TRUE
  /\ ts_bs = FacadeBatch
  /\ ts_i = 0
  /\ ts_error = NoError
  /\ ts_sent = 0
  /\ ts_fault = FALSE
  /\ ts_rejected = NoRejection
  /\ ts_log = <<>>
  /\ ts_res = NoResources
  /\ arg = [data |-> <<>>, primary_keys |-> CanonicalKey, update |-> TRUE,
            batch_size |-> FacadeBatch]
  /\ run = 0
  /\ runlog = <<>>
  /\ FacadeIdle
  /\ ValidatorIdle
  /\ ReaderIdle
  /\ call_sink = {}
  /\ LaterIdle

\* A caller runs read_sql(sql_query, params, date_columns).
ReadSqlCall ==
  /\ rd_pc = "called"
  /\ rd_pc' = "done"
  /\ rd_out' = ReadSqlResult(sink, rd_query, rd_fault)
  /\ UNCHANGED <<rd_query, rd_fault, sink, sink0, tsVars, driverVars, facadeVars,
                 validatorVars, readerVars, laterVars>>

NextRead == ReadSqlCall

SpecRead == InitRead /\ [][NextRead]_vars

\* ------------------------------------- to_sql beside a concurrent reader
\* Variant: the reader's query sees the rows of the open transaction.
ReadUncommitted(committed, working) == working

\* to_sql works on a connection of its own (get_db_connection) and publishes
\* with conn.commit(): a query on another connection sees committed rows.
ReadCommitted(committed, working) == committed

NoObservation == <<>>

InitReader ==
  /\ arg \in [data : Tables, primary_keys : {CanonicalKey}, update : BOOLEAN,
              batch_size : 1..MaxBatch]
  /\ sink \in Sinks(arg.primary_keys)
  /\ sink0 = sink
  /\ ts_pc = "idle"
  /\ ts_data = <<>>
  /\ ts_pk = arg.primary_keys
  /\ ts_update = arg.update
  /\ ts_bs = arg.batch_size
  /\ ts_i = 0
  /\ ts_error = NoError
  /\ ts_sent = 0
  /\ ts_fault = FALSE
  /\ ts_rejected = NoRejection
  /\ ts_log = <<>>
  /\ ts_res = NoResources
  /\ run = 0
  /\ runlog = <<>>
  /\ FacadeIdle
  /\ ValidatorIdle
  /\ ReadIdle
  /\ ReaderIdle
  /\ call_sink = {}
  /\ LaterIdle

\* Lines 27-65: the writer enters to_sql; its connection starts from the
\* committed rows.
WriterCall ==
  /\ run = 0
  /\ ts_pc = "idle"
  /\ run' = 1
  /\ ToSqlEnter(arg.data, arg.primary_keys, arg.update, arg.batch_size)
  /\ txn' = sink
  /\ txn_pos' = 0
  /\ UNCHANGED <<sink, arg, runlog, seen, facadeVars, validatorVars, readVars, laterVars>>

\* Lines 69-73: execute_values sends the next page of the batch as one
\* statement inside the open transaction; when the statement fails the
\* exception leaves to_sql and conn.close() rolls the transaction back.
WriterPage ==
  /\ ts_pc = "loop"
  /\ txn_pos < Len(BatchAt(ts_data, ts_i, ts_bs))
  /\ LET batch == BatchAt(ts_data, ts_i, ts_bs)
         page == SubSeq(batch, txn_pos + 1, Min(txn_pos + PageSize, Len(batch)))
         st == Statement(txn, page, ts_pk, ts_update)
     IN /\ ts_sent' = IF txn_pos = 0 THEN ts_sent + 1 ELSE ts_sent
        /\ ts_log' = IF txn_pos = 0 THEN Append(ts_log, batch) ELSE ts_log
        /\ \E storeFails \in BOOLEAN :
             LET e == DriverError(IF storeFails THEN "OperationalError"
                                  ELSE "CardinalityViolation")
                 h == OnDatabaseError(e)
             IN IF storeFails \/ ~st.ok
                THEN /\ txn' = CommitBatch(sink, [ok |-> FALSE, rows |-> st.rows])
                     /\ txn_pos' = 0
                     /\ ts_pc' = h.pc
                     /\ ts_error' = h.error
                     /\ ts_fault' = (ts_fault \/ storeFails)
                     /\ ts_rejected' = [batch |-> ts_sent', error |-> e]
                     /\ ts_res' = Release(ts_res)
                ELSE /\ txn' = st.rows
                     /\ txn_pos' = txn_pos + Len(page)
                     /\ UNCHANGED <<ts_pc, ts_error, ts_fault, ts_rejected, ts_res>>
  /\ UNCHANGED <<sink, sink0, ts_data, ts_pk, ts_update, ts_bs, ts_i, seen,
                 driverVars, facadeVars, validatorVars, readVars, laterVars>>

\* Line 74: conn.commit() publishes the batch.
WriterCommit ==
  /\ ts_pc = "loop"
  /\ txn_pos = Len(BatchAt(ts_data, ts_i, ts_bs))
  /\ sink' = CommitBatch(sink, [ok |-> TRUE, rows |-> txn])
  /\ txn_pos' = 0
  /\ ts_i' = ts_i + ts_bs
  /\ ts_pc' = IF ts_i + ts_bs < Len(ts_data) THEN "loop" ELSE "returned"
  /\ ts_res' = IF ts_i + ts_bs < Len(ts_data) THEN ts_res ELSE Release(ts_res)
  /\ UNCHANGED <<sink0, txn, seen, ts_data, ts_pk, ts_update, ts_bs, ts_error, ts_sent,
                 ts_fault, ts_rejected, ts_log, driverVars, facadeVars, validatorVars,
                 readVars, laterVars>>

\* Another session queries the table while the writer is where it is.
Observation ==
  [rows |-> ReadCommitted(sink, txn), pc |-> ts_pc, committed |-> ts_i \div ts_bs,
   pos |-> txn_pos]

ReaderQuery ==
  /\ run = 1
  /\ seen # <<Observation>>
  /\ seen' = <<Observation>>
  /\ UNCHANGED <<sink, sink0, txn, txn_pos, tsVars, driverVars, facadeVars,
                 validatorVars, readVars, laterVars>>

NextReader == WriterCall \/ WriterPage \/ WriterCommit \/ ReaderQuery

SpecReader == InitReader /\ [][NextReader]_vars

\* ------------------------------------------------ to_sql, then read_sql
\* The orders of data.columns tried.
ColumnOrders == {Columns, <<"code", "date", "field", "value">>,
                 <<"field", "code", "date", "value">>}
IndexIn(order, c) == CHOOSE i \in 1..Len(order) : order[i] = c

\* data_tuples = [tuple(x) for x in data.to_numpy()]: the values of a row in
\* the order of data.columns.
ToTuple(r, order) == [i \in 1..Len(order) |-> r[order[i]]]

\* Variant: the statement has no column list, the values go to the columns of
\* the table in the table's order.
AssignPositional(order, tup) == [c \in ColSet |-> tup[IndexIn(Columns, c)]]

\* INSERT INTO table (cols) VALUES %s with cols = ','.join(data.columns): the
\* i-th value of a tuple goes to the i-th column named.
AssignColumns(order, tup) == [c \in ColSet |-> tup[IndexIn(order, c)]]

\* The rows the statements of lines 44-48 carry to the store.
InsertedRows(t, order) ==
  [j \in 1..Len(t) |-> AssignColumns(order, ToTuple(t[j], order))]

InitRoundTrip ==
  /\ arg \in [data : Tables, primary_keys : {CanonicalKey}, update : {TRUE},
              batch_size : 1..MaxBatch]
  /\ rt_order \in ColumnOrders
  /\ sink \in Sinks(arg.primary_keys)
  /\ sink0 = sink
  /\ ts_pc = "idle"
  /\ ts_data = <<>>
  /\ ts_pk = arg.primary_keys
  /\ ts_update = arg.update
  /\ ts_bs = arg.batch_size
  /\ ts_i = 0
  /\ ts_error = NoError
  /\ ts_sent = 0
  /\ ts_fault = FALSE
  /\ ts_rejected = NoRejection
  /\ ts_log = <<>>
  /\ ts_res = NoResources
  /\ run = 0
  /\ runlog = <<>>
  /\ rd_pc = "off"
  /\ rd_query = {}
  /\ rd_fault \in {"none", "connect"}
  /\ rd_out = NoRead
  /\ FacadeIdle
  /\ ValidatorIdle
  /\ ReaderIdle
  /\ call_sink = {}
  /\ PairIdle
  /\ B3Idle
  /\ FiberyIdle
  /\ FredIdle
  /\ DatesIdle

\* The caller hands its table to to_sql(data, table, keys, update=True).
RoundTripWrite ==
  /\ run = 0
  /\ ts_pc = "idle"
  /\ run' = 1
  /\ ToSqlEnter(InsertedRows(arg.data, rt_order), arg.primary_keys, arg.update,
                arg.batch_size)
  /\ UNCHANGED <<sink, arg, runlog, facadeVars, sideVars>>

\* to_sql has returned: the caller runs read_sql with a query that selects
\* the keys of its table.
RoundTripRead ==
  /\ run = 1
  /\ ts_pc = "returned"
  /\ rd_pc = "off"
  /\ rd_pc' = "done"
  /\ rd_query' = KeysOf(RowSet(arg.data), CanonicalKey)
  /\ rd_out' = ReadSqlResult(sink, rd_query', rd_fault)
  /\ UNCHANGED <<rd_fault, sink, sink0, tsVars, driverVars, facadeVars, validatorVars,
                 readerVars, laterVars>>

NextRoundTrip == RoundTripWrite \/ DriverBatch \/ RoundTripRead

SpecRoundTrip == InitRoundTrip /\ [][NextRoundTrip]_vars

\* ------------------------------ get_data against a source that is stable
InitRetry ==
  /\ pc = "start"
  /\ source = "sgs"
  /\ retry_attempts \in 1..MaxRetry
  /\ save_to_db = TRUE
  /\ attempt = 0
  /\ last_error = NoError
  /\ df = <<>>
  /\ result = <<>>
  /\ error = NoException
  /\ trace = <<>>
  /\ persistLog = <<>>
  /\ persistErrors = <<>>
  /\ sink \in Sinks(CanonicalKey)
  /\ sink0 = sink
  /\ call_sink = sink
  /\ ts_pc = "idle"
  /\ ts_data = <<>>
  /\ ts_pk = CanonicalKey
  /\ ts_update = TRUE
  /\ ts_bs = FacadeBatch
  /\ ts_i = 0
  /\ ts_error = NoError
  /\ ts_sent = 0
  /\ ts_fault = FALSE
  /\ ts_rejected = NoRejection
  /\ ts_log = <<>>
  /\ ts_res = NoResources
  /\ arg \in [data : Tables, primary_keys : {CanonicalKey}, update : {TRUE},
              batch_size : {FacadeBatch}]
  /\ run = 0
  /\ runlog = <<>>
  /\ ValidatorIdle
  /\ ReadIdle
  /\ ReaderIdle
  /\ RoundTripIdle
  /\ PairIdle
  /\ B3Idle
  /\ FiberyIdle
  /\ FredIdle
  /\ DatesIdle

\* The remote source holds arg.data during the whole call: each invocation of
\* the provider that returns, returns that table.
RetryFetch == ProviderReturns(arg.data)

NextRetry ==
  \/ GetDataEnter
  \/ ProviderRaises
  \/ RetryFetch
  \/ PersistBatch
  \/ PersistReturned
  \/ PersistRaised
  \/ Exhausted

SpecRetry == InitRetry /\ [][NextRetry]_vars

\* ------------------------------------------ two to_sql calls at once
MaxPair == 2           \* longest input of each of the two concurrent calls

Other(k) == 3 - k
PairBatch(k) == BatchAt(w[k].data, w[k].i, w_cfg.bs)
PairNextRow(k) == PairBatch(k)[w[k].pos + 1]

\* The rows of the batch that the statement (page) in progress has already
\* proposed.
SamePageBefore(k) ==
  {PairBatch(k)[j] : j \in (w[k].pos - (w[k].pos % PageSize) + 1)..w[k].pos}

\* A transaction holds the lock of every row it has written until it commits
\* or is rolled back; a statement that reaches a row locked by another
\* transaction waits.
Blocked(k) ==
  /\ w[k].pc = "loop"
  /\ w[k].pos < Len(PairBatch(k))
  /\ KeyOf(PairNextRow(k), w_cfg.pk) \in KeysOf(w[Other(k)].pend, w_cfg.pk)

\* conn.commit(): the rows written by the transaction replace the committed
\* rows of their keys.
Overlay(committed, pend, pk) ==
  {r \in committed : KeyOf(r, pk) \notin KeysOf(pend, pk)} \cup pend

InitPair ==
  /\ w_cfg \in [pk : PKChoices, bs : 1..MaxPair]
  /\ \E d \in [Writers -> SeqsUpTo(MaxPair)] :
       w = [k \in Writers |-> [IdleWriter EXCEPT !.data = d[k]]]
  /\ sink \in {S \in Sinks(w_cfg.pk) : Cardinality(S) <= 1}
  /\ sink0 = sink
  /\ ts_pc = "idle"
  /\ ts_data = <<>>
  /\ ts_pk = CanonicalKey
  /\ ts_update = TRUE
  /\ ts_bs = FacadeBatch
  /\ ts_i = 0
  /\ ts_error = NoError
  /\ ts_sent = 0
  /\ ts_fault = FALSE
  /\ ts_rejected = NoRejection
  /\ ts_log = <<>>
  /\ ts_res = NoResources
  /\ arg = [data |-> <<>>, primary_keys |-> CanonicalKey, update |-> TRUE,
            batch_size |-> FacadeBatch]
  /\ run = 0
  /\ runlog = <<>>
  /\ FacadeIdle
  /\ ValidatorIdle
  /\ ReadIdle
  /\ ReaderIdle
  /\ call_sink = {}
  /\ RoundTripIdle
  /\ B3Idle
  /\ FiberyIdle
  /\ FredIdle
  /\ DatesIdle

exceptPair == <<sink0, tsVars, driverVars, facadeVars, validatorVars, readVars,
                readerVars, call_sink, rt_order, b3Vars, fiberyVars, fredVars, dateVars>>

\* Lines 27-65 with update=True: call k enters to_sql.
PairCall(k) ==
  /\ w[k].pc = "idle"
  /\ w' = [w EXCEPT ![k].pc =
             IF Len(w[k].data) = 0 THEN "returned"
             ELSE IF UpdateCols(w_cfg.pk) = {} THEN "returned"
             ELSE "loop"]
  /\ UNCHANGED <<sink, w_cfg, exceptPair>>

\* Line 73: the statement of call k reaches its next row. A key proposed
\* twice by one statement, or a failure of the store, ends the call with a
\* database error and its transaction is rolled back.
PairRow(k) ==
  /\ w[k].pc = "loop"
  /\ w[k].pos < Len(PairBatch(k))
  /\ ~Blocked(k)
  /\ \E storeFails \in BOOLEAN :
       IF storeFails \/ KeyOf(PairNextRow(k), w_cfg.pk) \in KeysOf(SamePageBefore(k), w_cfg.pk)
       THEN w' = [w EXCEPT ![k].pc = OnDatabaseError(w[k].error).pc,
                           ![k].pend = {},
                           ![k].error = DriverError(IF storeFails THEN "OperationalError"
                                                    ELSE "CardinalityViolation")]
       ELSE w' = [w EXCEPT ![k].pend = UpsertRow(@, PairNextRow(k), w_cfg.pk),
                           ![k].pos = @ + 1]
  /\ UNCHANGED <<sink, w_cfg, exceptPair>>

\* Line 74: call k commits its batch.
PairCommit(k) ==
  /\ w[k].pc = "loop"
  /\ w[k].pos = Len(PairBatch(k))
  /\ sink' = Overlay(sink, w[k].pend, w_cfg.pk)
  /\ w' = [w EXCEPT ![k].pend = {},
                    ![k].pos = 0,
                    ![k].i = @ + w_cfg.bs,
                    ![k].pc = IF w[k].i + w_cfg.bs < Len(w[k].data) THEN "loop"
                              ELSE "returned"]
  /\ UNCHANGED <<w_cfg, exceptPair>>

\* Each call waits for a row the other has locked: the store ends one of the
\* transactions with a deadlock error, which to_sql re-raises.
PairDeadlock(k) ==
  /\ Blocked(k)
  /\ Blocked(Other(k))
  /\ w' = [w EXCEPT ![k].pc = OnDatabaseError(w[k].error).pc,
                    ![k].pend = {},
                    ![k].error = DriverError("DeadlockDetected")]
  /\ UNCHANGED <<sink, w_cfg, exceptPair>>

NextPair ==
  \E k \in Writers : PairCall(k) \/ PairRow(k) \/ PairCommit(k) \/ PairDeadlock(k)

SpecPair == InitPair /\ [][NextPair]_vars

\* -------------------------------- B3Provider._fetch_flow_data_in_range
MaxDays == 3           \* longest date_range

\* What the B3 API can answer to the request for one day: table values (some
\* or none), a server error, a body that is not JSON, no answer in time.
DayAnswers ==
  {[http |-> 200, values |-> <<>>], [http |-> 200, values |-> <<"r1">>],
   [http |-> 200, values |-> <<"r1", "r2">>], [http |-> 500, values |-> <<>>],
   [http |-> 200, values |-> <<"not json">>], [http |-> 0, values |-> <<>>]}

\* _fetch_flow_day (lines 48-104): the day's rows, or an empty frame when the
\* table has no values or anything raised.
FetchFlowDay(ans) ==
  IF ans.http # 200 THEN <<>>
  ELSE IF ans.values = <<"not json">> THEN <<>>
  ELSE ans.values

\* Variant: every result is appended.
ResultEmptyNever(frame) == FALSE

\* result.empty
ResultEmpty(frame) == Len(frame) = 0

\* pd.concat(all_data, ignore_index=True)
RECURSIVE PdConcat(_)
PdConcat(frames) == IF frames = <<>> THEN <<>> ELSE Head(frames) \o PdConcat(Tail(frames))

InitB3 ==
  /\ \E n \in 0..MaxDays : b_src \in [1..n -> DayAnswers]
  /\ b_fut = [d \in DOMAIN b_src |-> [pc |-> "submitted", result |-> <<>>]]
  /\ b_all = <<>>
  /\ b_out = NoFlow
  /\ ToSqlIdle
  /\ FacadeIdle
  /\ ValidatorIdle
  /\ ReadIdle
  /\ ReaderIdle
  /\ call_sink = {}
  /\ RoundTripIdle
  /\ PairIdle
  /\ FiberyIdle
  /\ FredIdle
  /\ DatesIdle

exceptB3 == <<sink, sink0, tsVars, driverVars, facadeVars, validatorVars, readVars,
              readerVars, call_sink, rt_order, pairVars, fiberyVars, fredVars, dateVars>>

\* A worker of the pool runs _fetch_flow_day for day d to its end.
WorkerFetch(d) ==
  /\ b_out = NoFlow
  /\ b_fut[d].pc = "submitted"
  /\ b_fut' = [b_fut EXCEPT ![d] = [pc |-> "finished", result |-> FetchFlowDay(b_src[d])]]
  /\ UNCHANGED <<b_src, b_all, b_out, exceptB3>>

\* Lines 228-231: as_completed yields a finished future.
CollectResult(d) ==
  /\ b_out = NoFlow
  /\ b_fut[d].pc = "finished"
  /\ b_fut' = [b_fut EXCEPT ![d].pc = "collected"]
  /\ b_all' = IF ~ResultEmpty(b_fut[d].result) THEN Append(b_all, b_fut[d].result)
              ELSE b_all
  /\ UNCHANGED <<b_src, b_out, exceptB3>>

\* Lines 233-238: every future has been collected.
FlowReturn ==
  /\ b_out = NoFlow
  /\ \A d \in DOMAIN b_fut : b_fut[d].pc = "collected"
  /\ b_out' = IF b_all = <<>> THEN [status |-> "DataRetrievalError", frame |-> <<>>]
              ELSE [status |-> "returned", frame |-> PdConcat(b_all)]
  /\ UNCHANGED <<b_src, b_fut, b_all, exceptB3>>

NextB3 ==
  \/ \E d \in DOMAIN b_fut : WorkerFetch(d)
  \/ \E d \in DOMAIN b_fut : CollectResult(d)
  \/ FlowReturn

SpecB3 == InitB3 /\ [][NextB3]_vars

\* ----------------------------------------------------------- read_fibery
\* max_retries = 3
FiberyMaxRetries == 3

\* The selection of one field: [field], [field, 'enum/name'],
\* [field, '<Space>/Name'], or the alias deleted from field_selection.
Selections == {"plain", "enum", "space"}

\* Lines 297-317: the three strategies.
Rewrite(sel) ==
  IF sel = "plain" THEN "enum"
  ELSE IF sel = "enum" THEN "space"
  ELSE "removed"

\* The API rejects the query with query-primitive-field-expr-invalid when the
\* field is selected in a form it does not accept.
Rejected(sel) == sel # "removed" /\ sel \notin q_api.accepts

\* Lines 340-346 and the frame built from all_entities.
EntitiesFrame(n, sel) ==
  IF n = 0
  THEN [status |-> "empty", rows |-> 0, field |-> FALSE, log |-> "No entities found"]
  ELSE [status |-> "returned", rows |-> n, field |-> (sel # "removed"), log |-> "none"]

InitFibery ==
  /\ q_api \in [accepts : SUBSET Selections, entities : 0..2]
  /\ q_pc = "loop"
  /\ q_sel \in Selections
  /\ q_retry = 0
  /\ q_sent = <<>>
  /\ q_out = NoEntities
  /\ ToSqlIdle
  /\ FacadeIdle
  /\ ValidatorIdle
  /\ ReadIdle
  /\ ReaderIdle
  /\ call_sink = {}
  /\ RoundTripIdle
  /\ PairIdle
  /\ B3Idle
  /\ FredIdle
  /\ DatesIdle

exceptFibery == <<sink, sink0, tsVars, driverVars, facadeVars, validatorVars, readVars,
                  readerVars, call_sink, rt_order, pairVars, b3Vars, fredVars, dateVars>>

\* Lines 252-334: one pass of the while loop whose request is answered.
FiberyQuery ==
  /\ q_pc = "loop"
  /\ q_retry < FiberyMaxRetries
  /\ q_sent' = Append(q_sent, q_sel)
  /\ IF Rejected(q_sel)
     THEN /\ q_sel' = Rewrite(q_sel)
          /\ q_retry' = q_retry + 1
          /\ UNCHANGED <<q_pc, q_out>>
     ELSE /\ q_pc' = "done"
          /\ q_out' = EntitiesFrame(q_api.entities, q_sel)
          /\ UNCHANGED <<q_sel, q_retry>>
  /\ UNCHANGED <<q_api, exceptFibery>>

\* Lines 336-338: the request itself fails.
FiberyRequestError ==
  /\ q_pc = "loop"
  /\ q_retry < FiberyMaxRetries
  /\ q_sent' = Append(q_sent, q_sel)
  /\ q_pc' = "done"
  /\ q_out' = [status |-> "empty", rows |-> 0, field |-> FALSE, log |-> "Request error"]
  /\ UNCHANGED <<q_api, q_sel, q_retry, exceptFibery>>

\* Lines 340-342: the loop is left with retry_count = max_retries.
FiberyGiveUp ==
  /\ q_pc = "loop"
  /\ ~(q_retry < FiberyMaxRetries)
  /\ q_pc' = "done"
  /\ q_out' = [status |-> "empty", rows |-> 0, field |-> FALSE,
               log |-> "Failed to read from Fibery after retries"]
  /\ UNCHANGED <<q_api, q_sel, q_retry, q_sent, exceptFibery>>

NextFibery == FiberyQuery \/ FiberyRequestError \/ FiberyGiveUp

SpecFibery == InitFibery /\ [][NextFibery]_vars

\* ------------------------------------------------ FredProvider retry loop
\* src/persevera_tools/data/providers/fred.py, _get_series_with_retry
\* (lines 67-99).  The loop variable runs over range(max_retries); the API
\* answers each call with a series or with an exception whose message the
\* except clause lowers and searches.

MaxFredRetries == 4
SeriesCodes == {"GDP", "CPIAUCSL"}
\* What one call of fred.get_series can do: return the series, or raise with
\* one of these messages.
ApiAnswers == {"series", "Rate limit exceeded", "Too Many Requests", "Bad Request"}

\* Line 81: str(e).lower().
Lower(msg) ==
  CASE msg = "Rate limit exceeded" -> "rate limit exceeded"
    [] msg = "Too Many Requests"   -> "too many requests"
    [] msg = "Bad Request"         -> "bad request"
    [] OTHER                       -> msg

\* Line 84: 'rate limit' in error_msg or 'too many requests' in error_msg.
IsRateLimit(msg) == Lower(msg) \in {"rate limit exceeded", "too many requests"}

RECURSIVE Pow2(_)
Pow2(n) == IF n = 0 THEN 1 ELSE 2 * Pow2(n - 1)

\* Variant: the same wait after every rate-limit error.
WaitTimeConstant(a) == 1

\* Line 87: wait_time = 2 ** attempt.
WaitTime(a) == Pow2(a)

InitFred ==
  /\ ToSqlIdle
  /\ FacadeIdle
  /\ ValidatorIdle
  /\ ReadIdle
  /\ ReaderIdle
  /\ call_sink = {}
  /\ RoundTripIdle
  /\ PairIdle
  /\ B3Idle
  /\ FiberyIdle
  /\ DatesIdle
  /\ f_cfg \in [max_retries : 0..MaxFredRetries, series : SeriesCodes]
  /\ f_pc = "loop"
  /\ f_attempt = 0
  /\ f_hist = <<>>
  /\ f_waits = <<>>
  /\ f_out = NoSeries

exceptFred == <<sink, sink0, tsVars, driverVars, facadeVars, validatorVars, readVars,
                readerVars, call_sink, rt_order, pairVars, b3Vars, fiberyVars, dateVars>>

\* Lines 77-96: one pass of the for loop, one call of the API.
FredAttempt ==
  /\ f_pc = "loop"
  /\ f_attempt < f_cfg.max_retries
  /\ \E answer \in ApiAnswers :
       /\ f_hist' = Append(f_hist, answer)
       /\ IF answer = "series"
          THEN /\ f_out' = [status |-> "returned", series |-> f_cfg.series,
                            attempt |-> f_attempt]
               /\ f_pc' = "done"
               /\ f_waits' = Append(f_waits, 0)
               /\ UNCHANGED f_attempt
          ELSE IF IsRateLimit(answer) /\ f_attempt < f_cfg.max_retries - 1
          THEN /\ f_waits' = Append(f_waits, WaitTime(f_attempt))
               /\ f_attempt' = f_attempt + 1
               /\ UNCHANGED <<f_pc, f_out>>
          ELSE /\ f_out' = [status |-> "None", series |-> "none", attempt |-> f_attempt]
               /\ f_pc' = "done"
               /\ f_waits' = Append(f_waits, 0)
               /\ UNCHANGED f_attempt
  /\ UNCHANGED <<f_cfg, exceptFred>>

\* Line 98: the range is exhausted (only an empty range gets here).
FredExhausted ==
  /\ f_pc = "loop"
  /\ f_attempt >= f_cfg.max_retries
  /\ f_out' = [status |-> "None", series |-> "none", attempt |-> f_attempt]
  /\ f_pc' = "done"
  /\ UNCHANGED <<f_cfg, f_attempt, f_hist, f_waits, exceptFred>>

NextFred == FredAttempt \/ FredExhausted

SpecFred == InitFred /\ [][NextFred]_vars

\* ------------------------------------------------ subtract_business_days
\* src/persevera_tools/utils/dates.py, lines 23-50.  A date is a day number
\* (day 0 is a Monday) with a clock part: "date" for a datetime.date, a time
\* of day for a datetime.  The holidays come from get_holidays as timestamps.

MaxSub == 3
FirstDay == 14
StartDays == FirstDay..(FirstDay + 6)
HolidayDays == (FirstDay - 6)..(FirstDay - 1)
Clocks == {"date", "15:30"}

\* date.weekday(): Monday is 0, Sunday is 6.
Weekday(day) == day % 7

\* Lines 46: new_date.date() if isinstance(new_date, datetime) else new_date.
CheckDate(x) == [day |-> x.day, clock |-> "date"]

\* Line 44: new_date -= timedelta(days=1).
MinusOneDay(x) == [x EXCEPT !.day = @ - 1]

\* Line 37: {h.date() for h in get_holidays()}.
HolidayDates(stamps) == {CheckDate(h) : h \in stamps}

\* Variant: the holidays are not looked at.
IsBusinessDayWeekOnly(check, holidays) == Weekday(check.day) < 5

\* Line 48: check_date.weekday() < 5 and check_date not in holidays.
IsBusinessDay(check, holidays) == Weekday(check.day) < 5 /\ check \notin holidays

InitDates ==
  /\ ToSqlIdle
  /\ FacadeIdle
  /\ ValidatorIdle
  /\ ReadIdle
  /\ ReaderIdle
  /\ call_sink = {}
  /\ RoundTripIdle
  /\ PairIdle
  /\ B3Idle
  /\ FiberyIdle
  /\ FredIdle
  /\ \E D \in [day : StartDays, clock : Clocks], n \in (-1)..MaxSub,
        H \in SUBSET HolidayDays :
       d_in = [current_date |-> D, days_to_subtract |-> n,
               holidays |-> {[day |-> h, clock |-> "00:00"] : h \in H}]
  /\ d_pc = "loop"
  /\ d_new = d_in.current_date
  /\ d_count = 0

exceptDates == <<sink, sink0, tsVars, driverVars, facadeVars, validatorVars, readVars,
                 readerVars, call_sink, rt_order, pairVars, b3Vars, fiberyVars, fredVars>>

\* Lines 42-48: one pass of the while loop.
DatesStep ==
  /\ d_pc = "loop"
  /\ d_count < d_in.days_to_subtract
  /\ d_new' = MinusOneDay(d_new)
  /\ d_count' = IF IsBusinessDay(CheckDate(d_new'), HolidayDates(d_in.holidays))
                THEN d_count + 1
                ELSE d_count
  /\ UNCHANGED <<d_in, d_pc, exceptDates>>

\* Line 50: the loop test fails, new_date is returned.
DatesReturn ==
  /\ d_pc = "loop"
  /\ ~(d_count < d_in.days_to_subtract)
  /\ d_pc' = "done"
  /\ UNCHANGED <<d_in, d_new, d_count, exceptDates>>

NextDates == DatesStep \/ DatesReturn

\* The loop is sequential code: a step that can be taken is taken.
SpecDates == InitDates /\ [][NextDates]_vars /\ WF_vars(NextDates)

\* ================================================================ claims
Terminal == pc \in {"done", "failed"}
AllRaise(tr) == \A j \in 1..Len(tr) : tr[j] = "raise"
IsLastForKey(t, j, pk) ==
  \A m \in (j + 1)..Len(t) : KeyOf(t[m], pk) # KeyOf(t[j], pk)
IsFirstForKey(t, j, pk) ==
  \A m \in 1..(j - 1) : KeyOf(t[m], pk) # KeyOf(t[j], pk)
StoredFor(S, k, pk) == {r \in S : KeyOf(r, pk) = k}
HasDuplicateKey(t, pk) ==
  \E j, m \in 1..Len(t) : j < m /\ KeyOf(t[j], pk) = KeyOf(t[m], pk)

\* What the sink holds once the rows of t have been applied in order to s0:
\* with update the last row of each key, without it the stored row or else
\* the first row of the key.
ExpectedAfter(s0, t, pk, update) ==
  IF update
  THEN {r \in s0 : KeyOf(r, pk) \notin KeysOf(RowSet(t), pk)}
       \cup {t[j] : j \in {m \in 1..Len(t) : IsLastForKey(t, m, pk)}}
  ELSE s0 \cup {t[j] : j \in {m \in 1..Len(t) :
                               /\ IsFirstForKey(t, m, pk)
                               /\ KeyOf(t[m], pk) \notin KeysOf(s0, pk)}}

\* C1: after to_sql(update=True) on an input in which several rows share a
\* primary-key tuple (the store itself not failing), the call has returned
\* and the sink holds for that key exactly one row, the LAST such input row.
C1_LastWriteWins ==
  (/\ run >= 1 /\ Finished /\ ts_update /\ ~ts_fault
   /\ UpdateCols(ts_pk) # {}
   /\ HasDuplicateKey(ts_data, ts_pk))
  => /\ ts_pc = "returned"
     /\ \A j \in 1..Len(ts_data) :
          IsLastForKey(ts_data, j, ts_pk)
          => StoredFor(sink, KeyOf(ts_data[j], ts_pk), ts_pk) = {ts_data[j]}

\* C2: once to_sql has raised into get_data, the call has failed with that
\* persistence error, to_sql was invoked only that once, the provider has not
\* been invoked again and the failure was not counted as an attempt.
C2_PersistenceFailureEndsCall ==
  persistErrors # <<>>
  => /\ pc = "failed"
     /\ error.last = persistErrors[1]
     /\ Len(persistLog) = 1
     /\ Len(trace) = persistLog[1]
     /\ attempt = Cardinality({j \in 1..Len(trace) : trace[j] = "raise"})

\* C3: within one get_data call to_sql is invoked at most once, and after it
\* has been invoked the provider is not invoked again.
C3_NoFetchAfterPersist ==
  /\ Len(persistLog) <= 1
  /\ persistLog # <<>> => Len(trace) = persistLog[1]

\* C4: with a recognized source and retry_attempts = N >= 1, when the
\* provider raises on attempts 1..k-1 and returns a non-empty table on
\* attempt k <= N (persistence not failing), the call does not give up before
\* attempt k, returns that table, raises nothing, and the provider has been
\* invoked exactly k times.
C4_RetryThenSuccess ==
  (source \in providers /\ retry_attempts >= 1 /\ persistErrors = <<>>)
  => /\ (pc = "loop" /\ AllRaise(trace)) => attempt = Len(trace)
     /\ (pc = "failed" /\ AllRaise(trace)) => Len(trace) = retry_attempts
     /\ \A k \in 1..retry_attempts :
          (/\ Terminal
           /\ Len(trace) >= k
           /\ AllRaise(SubSeq(trace, 1, k - 1))
           /\ trace[k] = "table")
          => /\ pc = "done"
             /\ result = df
             /\ result # <<>>
             /\ error = NoException
             /\ Len(trace) = k

C4_Witness ==
  /\ pc = "done"
  /\ retry_attempts = 3
  /\ trace = <<"raise", "raise", "table">>
  /\ save_to_db
  /\ persistLog = <<3>>
  /\ Len(result) = MaxLen

\* C5: with a recognized source and retry_attempts = N >= 1, when every
\* provider invocation raises, the call ends raising the one aggregated error
\* that names the source and carries the message of the N-th failure; the
\* provider has been invoked exactly N times and to_sql never.
C5_AllAttemptsFail ==
  (/\ Terminal /\ source \in providers /\ retry_attempts >= 1
   /\ AllRaise(trace))
  => /\ pc = "failed"
     /\ Len(trace) = retry_attempts
     /\ error = AggregatedError(source, retry_attempts, ProviderError(retry_attempts))
     /\ persistLog = <<>>
     /\ result = <<>>

C5_Witness ==
  /\ pc = "failed"
  /\ retry_attempts = 3
  /\ trace = <<"raise", "raise", "raise">>
  /\ save_to_db

\* C6: running to_sql(update=True) a second time with the same input leaves
\* the sink as the first run left it (the store itself not failing in either
\* run).
C6_Idempotent ==
  (/\ run = 2 /\ Finished /\ ts_update
   /\ ~ts_fault /\ ~runlog[1].fault)
  => sink = runlog[1].sink

C6_Witness ==
  /\ run = 2 /\ ts_pc = "returned" /\ ts_update
  /\ ~ts_fault /\ ~runlog[1].fault
  /\ runlog[1].sink # runlog[1].before
  /\ ts_sent >= 2
  /\ HasDuplicateKey(ts_data, ts_pk)
  /\ \E r \in RowSet(ts_data) : r \notin sink

\* C7: when the store rejects batch k, the call raises the store's error,
\* batch k was the last one sent, and the sink holds exactly the effect of
\* batches 1..k-1 on the sink the call found.
C7_RejectedBatchAborts ==
  ts_rejected.batch > 0
  => /\ ts_pc = "raised"
     /\ ts_error = ts_rejected.error
     /\ ts_sent = ts_rejected.batch
     /\ sink = ExpectedAfter(sink0,
                             SubSeq(ts_data, 1, (ts_rejected.batch - 1) * ts_bs),
                             ts_pk, ts_update)

C7_Witness ==
  /\ ts_rejected.batch = 2
  /\ ts_pc = "raised"
  /\ sink # sink0
  /\ ts_rejected.batch * ts_bs < Len(ts_data)
  /\ \E j \in (ts_i + 1)..Len(ts_data) : ts_data[j] \notin sink

\* C8 as claimed: after a successful to_sql(update=True), for EVERY input row
\* whose key was in the sink, the stored row's non-key columns are that row's.
C8_EveryInputRowOverwrites ==
  (run >= 1 /\ ts_pc = "returned" /\ ts_update)
  => \A j \in 1..Len(ts_data) :
       KeyOf(ts_data[j], ts_pk) \in KeysOf(sink0, ts_pk)
       => /\ StoredFor(sink, KeyOf(ts_data[j], ts_pk), ts_pk) # {}
          /\ \A r \in StoredFor(sink, KeyOf(ts_data[j], ts_pk), ts_pk) :
               \A c \in UpdateCols(ts_pk) : r[c] = ts_data[j][c]

\* C8 amended: after a successful to_sql(update=True), for every key of the
\* input that was in the sink, the stored row's non-key columns are those of
\* the LAST input row with that key.
C8_LastInputRowOverwrites ==
  (run >= 1 /\ ts_pc = "returned" /\ ts_update)
  => \A j \in 1..Len(ts_data) :
       (/\ KeyOf(ts_data[j], ts_pk) \in KeysOf(sink0, ts_pk)
        /\ IsLastForKey(ts_data, j, ts_pk))
       => /\ StoredFor(sink, KeyOf(ts_data[j], ts_pk), ts_pk) # {}
          /\ \A r \in StoredFor(sink, KeyOf(ts_data[j], ts_pk), ts_pk) :
               \A c \in UpdateCols(ts_pk) : r[c] = ts_data[j][c]

C8_Witness ==
  /\ run = 1 /\ ts_pc = "returned" /\ ts_update
  /\ ts_sent >= 1
  /\ \E j \in 1..Len(ts_data) :
       /\ KeyOf(ts_data[j], ts_pk) \in KeysOf(sink0, ts_pk)
       /\ ts_data[j] \notin sink0
       /\ ts_data[j] \in sink

\* C9: during and after to_sql(update=False) every row the sink held when the
\* call was entered is still there unchanged, and every other row of the sink
\* is an input row whose key the sink did not hold.
C9_InsertIfAbsent ==
  (run >= 1 /\ ~ts_update)
  => /\ sink0 \subseteq sink
     /\ \A r \in sink \ sink0 :
          /\ KeyOf(r, ts_pk) \notin KeysOf(sink0, ts_pk)
          /\ r \in RowSet(ts_data)

C9_Witness ==
  /\ run = 1 /\ ts_pc = "returned" /\ ~ts_update
  /\ sink # sink0
  /\ \E j \in 1..Len(ts_data) :
       /\ KeyOf(ts_data[j], ts_pk) \in KeysOf(sink0, ts_pk)
       /\ ts_data[j] \notin sink0

\* C10: when the provider returns an empty table, get_data returns it at
\* once: that invocation is the last one, to_sql is not called for it, and
\* nothing is raised.
C10_EmptyReturnsAtOnce ==
  \A j \in 1..Len(trace) :
    trace[j] = "empty"
    => /\ j = Len(trace)
       /\ pc = "done"
       /\ result = <<>>
       /\ error = NoException
       /\ ts_pc = "idle"
       /\ \A i \in 1..Len(persistLog) : persistLog[i] # j

C10_Witness ==
  /\ save_to_db
  /\ pc = "done"
  /\ Len(trace) = 2
  /\ trace[2] = "empty"
  /\ attempt = 1

\* ------------------------------------------------ _validate_output claims
\* The raw table has the four required columns, dates that parse and no null
\* code; its values are all finite or missing.
V_Clean ==
  /\ v_pc = "done"
  /\ ColSet \subseteq v_df.cols
  /\ \A i \in 1..Len(v_df.rows) : Parseable(v_df.rows[i].date)
  /\ \A i \in 1..Len(v_df.rows) : v_df.rows[i].code # NA
V_Finite == \A i \in 1..Len(v_df.rows) : v_df.rows[i].value # "inf"
V_KeptIdx ==
  {i \in 1..Len(v_df.rows) :
     /\ v_df.rows[i].value # NA
     /\ DateValue(v_df.rows[i].date) >= DateValue(v_start)}
V_Expected(i) ==
  [date |-> DateValue(v_df.rows[i].date), code |-> v_df.rows[i].code,
   field |-> v_df.rows[i].field, value |-> AsFloat(v_df.rows[i].value)]

\* C11: for a raw table with the four required columns and no null code,
\* _validate_output returns exactly the rows with a non-null value (and a date
\* not before start_date), each unchanged apart from type coercion; when no
\* row remains the result is the empty table, not an error.
C11_KeepsRowsWithValue ==
  (V_Clean /\ V_Finite)
  => /\ v_out.status = "returned"
     /\ Len(v_out.rows) = Cardinality(V_KeptIdx)
     /\ \A i \in V_KeptIdx :
          \E j \in 1..Len(v_out.rows) :
            \A c \in ColSet : v_out.rows[j][c] = V_Expected(i)[c]
     /\ \A j \in 1..Len(v_out.rows) :
          \E i \in V_KeptIdx :
            \A c \in ColSet : v_out.rows[j][c] = V_Expected(i)[c]

\* C12: a raw table with an infinite value in a row that has a value makes
\* _validate_output raise and return no table; a raw table whose values are
\* all finite is not made to raise by the finiteness check.
C12_FinitenessCheck ==
  V_Clean
  => /\ ~V_Finite => (v_out.status = "raised" /\ v_out.rows = <<>>)
     /\ V_Finite => ~(v_out.status = "raised" /\ v_out.step = "finite")

\* C13: for an otherwise valid raw table _validate_output leaves out exactly
\* the rows dated before start_date (a row dated start_date is kept); when all
\* rows are before it the result is the empty table and nothing is raised.
C13_StartDateFloor ==
  (V_Clean /\ V_Finite)
  => /\ v_out.status = "returned"
     /\ \A j \in 1..Len(v_out.rows) : v_out.rows[j].date >= DateValue(v_start)
     /\ \A i \in 1..Len(v_df.rows) :
          v_df.rows[i].value # NA
          => ((DateValue(v_df.rows[i].date) >= DateValue(v_start))
              <=> (\E j \in 1..Len(v_out.rows) :
                     /\ v_out.rows[j].date = DateValue(v_df.rows[i].date)
                     /\ v_out.rows[j].code = v_df.rows[i].code))

C15_NullCodeRejectsBatch ==
  (/\ v_pc = "done"
   /\ ColSet \subseteq v_df.cols
   /\ \E i \in 1..Len(v_df.rows) : v_df.rows[i].code = NA)
  => /\ v_out.status = "raised"
     /\ v_out.rows = <<>>
     /\ (\A i \in 1..Len(v_df.rows) : Parseable(v_df.rows[i].date))
        => v_out.step = "code"

C15_Witness ==
  /\ v_pc = "done"
  /\ v_df.cols = ColSet
  /\ v_start = "2024-01-01"
  /\ Len(v_df.rows) = 2
  /\ v_df.rows[1] = [date |-> "2024-01-02", code |-> "AAA", field |-> "close",
                     value |-> "10", source |-> "x"]
  /\ v_df.rows[2].code = NA
  /\ v_df.rows[2].value = NA
  /\ v_df.rows[2].date = "2023-12-29"
  /\ v_out.status = "raised"
  /\ v_out.step = "code"

\* ------------------------------------------------------- to_sql batching
RECURSIVE Concat(_)
Concat(ss) == IF ss = <<>> THEN <<>> ELSE Head(ss) \o Concat(Tail(ss))
CeilDiv(n, d) == (n + d - 1) \div d

\* C16: a to_sql call that returns has sent its input rows in consecutive
\* batches in input order, each of 1..batch_size rows, ceil(n / batch_size)
\* batches in all, every row once; before a batch is sent all earlier ones are
\* committed.
C16_ConsecutiveBatches ==
  /\ (run >= 1 /\ ts_pc = "returned")
     => /\ Len(ts_log) = CeilDiv(Len(ts_data), ts_bs)
        /\ Concat(ts_log) = ts_data
        /\ \A k \in 1..Len(ts_log) : Len(ts_log[k]) >= 1 /\ Len(ts_log[k]) <= ts_bs
  /\ (run >= 1 /\ ts_pc = "loop")
     => sink = ExpectedAfter(sink0, Concat(ts_log), ts_pk, ts_update)

\* ------------------------------------------------------- read_sql claims
\* C17 as claimed: whatever fails while read_sql runs, engine creation
\* included, read_sql returns an empty table and raises nothing; a successful
\* query returns its rows.
C17_AnyFailureGivesEmpty ==
  rd_pc = "done"
  => /\ rd_out.status = "returned"
     /\ rd_fault # "none" => rd_out.rows = {}
     /\ rd_fault = "none" => rd_out.rows = {r \in sink : KeyOf(r, CanonicalKey) \in rd_query}

\* C17 amended: when connecting, the statement or its parameters fail,
\* read_sql returns an empty table and raises nothing; when the creation of
\* the engine fails the exception reaches the caller; a successful query
\* returns its rows.
C17_FailureInsideTryGivesEmpty ==
  rd_pc = "done"
  => /\ rd_fault \in {"connect", "statement", "params"}
        => (rd_out.status = "returned" /\ rd_out.rows = {})
     /\ rd_fault = "engine" => rd_out.status = "raised"
     /\ rd_fault = "none"
        => /\ rd_out.status = "returned"
           /\ rd_out.rows = {r \in sink : KeyOf(r, CanonicalKey) \in rd_query}

C17_Witness ==
  /\ rd_pc = "done"
  /\ rd_fault = "connect"
  /\ rd_out.status = "returned"
  /\ rd_out.rows = {}
  /\ \E r \in sink : KeyOf(r, CanonicalKey) \in rd_query

\* ------------------------------------------------------- get_data outcome
Max(a, b) == IF a >= b THEN a ELSE b
OutcomeDone == pc = "done" /\ result # <<>> /\ error = NoException
OutcomeEmpty == pc = "done" /\ result = <<>> /\ error = NoException
OutcomeFailed == pc = "failed" /\ result = <<>> /\ error # NoException
C18_Outcome ==
  /\ Len(trace) <= Max(retry_attempts, 0)
  /\ Terminal
     => /\ OutcomeDone \/ OutcomeEmpty \/ OutcomeFailed
        /\ ~(OutcomeDone /\ OutcomeFailed)
        /\ ~(OutcomeEmpty /\ OutcomeFailed)
        /\ ~(OutcomeDone /\ OutcomeEmpty)

\* C18: every get_data call, whatever integer retry_attempts is, ends, and
\* ends in exactly one of: a non-empty table returned, an empty table
\* returned, an error raised; once ended it takes no further step; the
\* provider is invoked at most max(retry_attempts, 0) times.
C18_TerminatesInOneOutcome ==
  /\ []C18_Outcome
  /\ [][~Terminal]_vars
  /\ <>Terminal

C18_Witness ==
  /\ OutcomeDone
  /\ retry_attempts = MaxRetry
  /\ Len(trace) = MaxRetry
  /\ persistErrors # <<>>

\* C19: get_data with a source that is not a key of the providers map raises
\* ValueError with no provider invoked, nothing written to the sink and no
\* attempt counted.
C19_UnknownSourceRefused ==
  (pc # "start" /\ source \notin providers)
  => /\ pc = "failed"
     /\ error = [type |-> "ValueError", source |-> source, attempts |-> 0,
                 last |-> NoError]
     /\ trace = <<>>
     /\ persistLog = <<>>
     /\ attempt = 0
     /\ sink = sink0
     /\ ts_pc = "idle"

C19_Witness ==
  /\ pc = "failed"
  /\ source = "nasdaq"
  /\ error.type = "ValueError"
  /\ retry_attempts = MaxRetry
  /\ save_to_db
  /\ sink # {}

\* ------------------------------------------------ reader beside to_sql
\* The sink after the first j batches of the running call.
AfterBatches(j) ==
  ExpectedAfter(sink0, SubSeq(ts_data, 1, Min(j * ts_bs, Len(ts_data))), ts_pk, ts_update)

\* C20: whatever a concurrent reader observes while or after to_sql runs is
\* the sink after a whole number of committed batches of that call (the
\* number committed when it looked), never a batch applied in part.
C20_ReaderSeesWholeBatches ==
  seen # NoObservation
  => /\ seen[1].committed \in 0..CeilDiv(Len(ts_data), ts_bs)
     /\ seen[1].rows = AfterBatches(seen[1].committed)

\* The reader looked in the middle of a call of several batches and saw the
\* first batch applied and the later ones not.
C20_Witness ==
  /\ seen # NoObservation
  /\ seen[1].pc = "loop"
  /\ seen[1].committed > 0
  /\ seen[1].committed < CeilDiv(Len(ts_data), ts_bs)
  /\ seen[1].rows # sink0
  /\ ts_pc = "returned"
  /\ sink # seen[1].rows

\* ----------------------------------------------- to_sql: keys, frame, exits
\* C23: once to_sql(update=True) has returned on a non-empty input, every
\* primary-key tuple of the input is in the sink, whatever subset of the
\* columns the primary key is, all the columns included.
C23_InputKeysPresent ==
  (run >= 1 /\ ts_pc = "returned" /\ ts_update /\ Len(ts_data) > 0)
  => KeysOf(RowSet(ts_data), ts_pk) \subseteq KeysOf(sink, ts_pk)

\* C27: no step of to_sql, in a first or a repeated call, with either value
\* of update, successful or failing part-way, removes the row of a key from
\* the sink, nor changes a row whose key is not a key of the input.
C27_FrameOfToSql ==
  [][\A r \in sink :
       /\ \E q \in sink' : KeyOf(q, arg.primary_keys) = KeyOf(r, arg.primary_keys)
       /\ KeyOf(r, arg.primary_keys) \notin KeysOf(RowSet(arg.data), arg.primary_keys)
          => r \in sink']_vars

C27_Witness ==
  /\ run = 2
  /\ ts_pc = "raised"
  /\ ts_sent >= 2
  /\ sink # sink0
  /\ \E r \in sink : KeyOf(r, ts_pk) \notin KeysOf(RowSet(ts_data), ts_pk)

\* C30: a to_sql call that got its engine, connection and cursor has, when it
\* is over (returned, raised on a database error, or returned early because
\* every column is a key), closed the cursor and the connection and disposed
\* of the engine once each, and not before; a call with empty input has
\* acquired nothing and not contacted the database.
C30_ResourcesReleasedOnce ==
  /\ (run >= 1 /\ Finished /\ Len(ts_data) = 0) => ts_res = NoResources
  /\ (run >= 1 /\ Finished /\ Len(ts_data) > 0)
     => ts_res = [acquired |-> 1, cursor_closed |-> 1, conn_closed |-> 1,
                  disposed |-> 1, contacted |-> TRUE]
  /\ ts_pc = "loop"
     => ts_res = [acquired |-> 1, cursor_closed |-> 0, conn_closed |-> 0,
                  disposed |-> 0, contacted |-> TRUE]

C30_Witness ==
  /\ ts_pc = "raised"
  /\ ts_sent = 2
  /\ sink # sink0
  /\ ts_res.disposed = 1

\* ------------------------------------------------------------ round trip
\* C22: for a table T whose rows have distinct keys, to_sql(T, update=True)
\* on the key (date, code, field) followed, once it has returned, by a
\* read_sql that selects the keys of T and whose query runs, returns exactly
\* the rows of T, whatever the order of T's columns and whatever the sink held.
C22_RoundTrip ==
  (/\ rd_pc = "done"
   /\ rd_fault = "none"
   /\ ~HasDuplicateKey(arg.data, CanonicalKey))
  => /\ rd_out.status = "returned"
     /\ rd_out.rows = RowSet(arg.data)

C22_Witness ==
  /\ rd_pc = "done"
  /\ rd_fault = "none"
  /\ Len(arg.data) = 2
  /\ ~HasDuplicateKey(arg.data, CanonicalKey)
  /\ rt_order # Columns
  /\ ts_sent = 2
  /\ \E r \in sink0 : r \notin RowSet(arg.data)
  /\ rd_out.rows = RowSet(arg.data)

\* C29: when get_data has returned its table after one or more failed to_sql
\* attempts (which may have committed batches) and a last, successful one on
\* the same table, the sink is what one successful to_sql of that table on the
\* sink of before the call gives.
C29_RetryLeavesNoTrace ==
  (pc = "done" /\ result # <<>> /\ persistErrors # <<>>)
  => /\ result = arg.data
     /\ sink = ExpectedAfter(call_sink, arg.data, CanonicalKey, TRUE)

\* The failed attempt had committed a batch (the last to_sql did not start
\* from the sink of before the call) and the last attempt added to it.
C29_Witness ==
  /\ pc = "done"
  /\ persistErrors # <<>>
  /\ sink0 # call_sink
  /\ sink # sink0
  /\ sink = ExpectedAfter(call_sink, arg.data, CanonicalKey, TRUE)

\* ------------------------------------------------- two calls at once
PairKeys == KeysOf(RowSet(w[1].data) \cup RowSet(w[2].data), w_cfg.pk)

RECURSIVE CountIn(_, _)
CountIn(x, frame) ==
  IF frame = <<>> THEN 0
  ELSE (IF Head(frame) = x THEN 1 ELSE 0) + CountIn(x, Tail(frame))
RECURSIVE CountOverDays(_, _)
CountOverDays(x, n) ==
  IF n = 0 THEN 0 ELSE CountIn(x, FetchFlowDay(b_src[n])) + CountOverDays(x, n - 1)

\* C21: whatever the order in which the per-day workers run and finish,
\* _fetch_flow_data_in_range returns each row as many times as the days'
\* non-empty results hold it (a day whose fetch failed adds nothing and stops
\* nothing), and it raises DataRetrievalError exactly when every day's result
\* is empty.
C21_FanOutKeepsEveryDay ==
  b_out # NoFlow
  => /\ b_out.status = "DataRetrievalError"
        <=> \A d \in DOMAIN b_src : FetchFlowDay(b_src[d]) = <<>>
     /\ b_out.status = "returned"
        => \A x \in {"r1", "r2", "not json"} :
             CountIn(x, b_out.frame) = CountOverDays(x, Len(b_src))
     /\ b_out.status \in {"returned", "DataRetrievalError"}

\* Three days: the first failed, the third finished before the second, both
\* of their results are in the table returned.
C21_Witness ==
  /\ b_out.status = "returned"
  /\ Len(b_src) = 3
  /\ b_src[1].http = 500
  /\ b_all = <<b_fut[3].result, b_fut[2].result>>
  /\ b_fut[2].result = <<"r1", "r2">>
  /\ b_fut[3].result = <<"r1">>

\* ------------------------------------------------------------ read_fibery
\* C24: when the API rejects the field in every form and every request is
\* answered, read_fibery, starting from [field], sends the queries with
\* [field], [field, 'enum/name'], [field, '<Space>/Name'] and then the query
\* without the field, and returns the rows of that last query.
C24_FieldRemovedThenQueried ==
  (/\ q_pc = "done"
   /\ q_api.accepts = {}
   /\ q_api.entities > 0
   /\ q_sent[1] = "plain"
   /\ q_out.log # "Request error")
  => /\ q_sent = <<"plain", "enum", "space", "removed">>
     /\ q_out = [status |-> "returned", rows |-> q_api.entities, field |-> FALSE,
                 log |-> "none"]


\* C25: _get_series_with_retry calls the API at most max_retries times; a
\* rate-limit error on attempt i < max_retries-1 is followed by a wait of 2^i
\* seconds and one more attempt; a rate-limit error on the last attempt, or any
\* other error, returns None with no further attempt; the first successful
\* attempt's series is returned; the function never raises.
C25_RetryWithBackoff ==
  /\ Len(f_hist) <= f_cfg.max_retries
  /\ Len(f_waits) = Len(f_hist)
  /\ f_out.status \in {"none", "returned", "None"}
  /\ f_pc = "loop" => f_out = NoSeries /\ Len(f_hist) = f_attempt
  /\ \A i \in 1..Len(f_hist) :
       LET last == i = Len(f_hist) /\ f_pc = "done"
       IN /\ (IsRateLimit(f_hist[i]) /\ i - 1 < f_cfg.max_retries - 1)
               => /\ f_waits[i] = Pow2(i - 1)
                  /\ ~last
                  /\ i < Len(f_hist) \/ (f_pc = "loop" /\ f_attempt = i)
          /\ (IsRateLimit(f_hist[i]) /\ i - 1 >= f_cfg.max_retries - 1)
               => last /\ f_out.status = "None"
          /\ (~IsRateLimit(f_hist[i]) /\ f_hist[i] # "series")
               => last /\ f_out.status = "None"
          /\ f_hist[i] = "series"
               => last /\ f_out = [status |-> "returned", series |-> f_cfg.series,
                                   attempt |-> i - 1]
  /\ (f_pc = "done" /\ f_hist = <<>>) => f_out.status = "None"

\* Two rate-limit errors, waits of 1 and 2 seconds, then the series.
C25_Witness ==
  /\ f_pc = "done"
  /\ f_cfg.max_retries = 3
  /\ f_hist = <<"Too Many Requests", "Rate limit exceeded", "series">>
  /\ f_waits = <<1, 2, 0>>
  /\ f_out = [status |-> "returned", series |-> f_cfg.series, attempt |-> 2]

\* The days of a..b that are Monday to Friday and not the day of a holiday.
BusinessDaysIn(a, b, stamps) ==
  {x \in a..b : x % 7 \in 0..4 /\ x \notin {h.day : h \in stamps}}

C26_ReturnedDate ==
  d_pc = "done" =>
    LET D == d_in.current_date
        n == d_in.days_to_subtract
    IN IF n >= 1
       THEN /\ d_new.day < D.day
            /\ d_new.clock = D.clock
            /\ BusinessDaysIn(d_new.day, d_new.day, d_in.holidays) # {}
            /\ Cardinality(BusinessDaysIn(d_new.day, D.day - 1, d_in.holidays)) = n
       ELSE d_new = D

\* C26: for every date D, holiday set H and n >= 1, subtract_business_days
\* terminates and returns the business day d < D with exactly n business days
\* in [d, D); for n <= 0 it returns D unchanged, business day or not.
C26_SubtractBusinessDays == []C26_ReturnedDate /\ <>(d_pc = "done")

\* Three business days back from a Monday, over a weekend and two holidays.
C26_Witness ==
  /\ d_pc = "done"
  /\ d_in.days_to_subtract = 3
  /\ Weekday(d_in.current_date.day) = 0
  /\ Cardinality(d_in.holidays) = 2
  /\ d_in.current_date.day - d_new.day = 7
====
